---- MODULE Spec2Model ----
(***************************************************************************)
(* State-machine model of the live voice session of SSG-AI:                *)
(* src/components/LiveVoiceOverlay.tsx (the useEffect that starts the      *)
(* session, its transport callbacks, the capture callback, the cleanup)    *)
(* and the host's command handler in src/App.tsx.                          *)
(*                                                                         *)
(* One action is one task of the browser's event loop: a callback runs to  *)
(* completion or to its next await, and the promise continuations it       *)
(* makes runnable (microtasks) run inside the same action.                 *)
(***************************************************************************)
EXTENDS Integers, Sequences, FiniteSets, TLC

\* ---------------------------------------------------------------- bounds
MaxMsgs == 2        \* inbound messages delivered to onmessage
MaxFrames == 2      \* capture callbacks (onaudioprocess events)
MaxClock == 2       \* last value of the output device clock
MaxDur == 1         \* longest decoded buffer, in clock units
MaxBatch == 3       \* most function calls in one toolCall message
MaxToolMsgs == 1    \* toolCall messages delivered to onmessage
MaxTexts == 4       \* transcript messages delivered to onmessage
MaxIds == 3         \* Date.now() readings of the host that make an id

VARIABLES
  isVoiceMode,      \* App.tsx:19   host state: the overlay is rendered
  isActive,         \* LiveVoiceOverlay.tsx:23   closure flag of the effect
  stream,           \* :32  getUserMedia: "pending" | "ok" | "failed"
  promise,          \* :34  sessionPromise: "none" | "pending" | "resolved" | "rejected"
  opened,           \* :37  the transport's onopen callback has run
  processor,        \* :42-55 scriptProcessor installed and connected
  audioCtxClosed,   \* :29/:154 capture AudioContext closed
  outCtxClosed,     \* :30/:155 playback AudioContext closed
  peerClosed,       \* :110 the transport reported close
  status,           \* :12
  userTranscript,   \* :13  sequence of text pieces
  aiTranscript,     \* :14
  isMuted,          \* :15  React state shown by the mute button
  effectIsMuted,    \* :15/:22/:45 value of isMuted the effect's closures hold
  thens,            \* continuations registered on sessionPromise while pending
  uplink,           \* calls made on the resolved session handle, in order
  captured,         \* per capture callback: the isMuted state at that moment
  now,              \* outputAudioContextRef.current.currentTime
  nextStartTime,    \* :19  nextStartTimeRef.current
  nodes,            \* every AudioBufferSourceNode created, in creation order
  sources,          \* :20  sourcesRef.current (indices into nodes)
  decoding,         \* onmessage invocations suspended at `await decodeAudioData`
                    \* (prev: status and nextStartTime before a malformed chunk)
  msgCount,         \* inbound messages handled so far
  interrupts,       \* 'interrupted' events processed so far
  commands,         \* onCommand invocations, in order
  rejections,       \* onmessage invocations that ended by throwing
  requests,         \* function calls of the messages onmessage accepted
  lastFragment,     \* number of the last message that carried a transcript fragment
  overtaken,        \* numbers of the suspended messages that arrived before an
                    \* 'interrupted' event processed since
  unmountedAt,      \* state of sessionPromise when the cleanup ran
  sessions,         \* App.tsx:13   the chat sessions, newest first
  currentSessionId, \* App.tsx:14   0 stands for null
  useSearch,        \* App.tsx:16
  isLoading,        \* App.tsx:15
  sending,          \* handleSendMessage calls suspended at an await (at most one)
  contents,         \* types.ts:84  contents of the last generateContent call
  clock             \* Date.now() of the host, in readings

vars == <<isVoiceMode, isActive, stream, promise, opened, processor,
          audioCtxClosed, outCtxClosed, peerClosed, status, userTranscript,
          aiTranscript, isMuted, effectIsMuted, thens, uplink, captured, now,
          nextStartTime, nodes, sources, decoding, msgCount, interrupts,
          commands, rejections, requests, lastFragment, overtaken,
          unmountedAt,
          sessions, currentSessionId, useSearch, isLoading, sending, contents,
          clock>>

sendVars == <<isLoading, sending, contents, clock>>
hostVars == <<sessions, currentSessionId, useSearch, isLoading, sending,
              contents, clock>>
lifeVars == <<isVoiceMode, isActive, stream, promise, opened, processor,
              audioCtxClosed, outCtxClosed, peerClosed, unmountedAt>>
playVars == <<now, nextStartTime, nodes, sources, decoding, interrupts>>
textVars == <<userTranscript, aiTranscript>>
linkVars == <<thens, uplink>>
msgVars == <<msgCount, commands, rejections, requests, lastFragment,
            overtaken>>

\* ------------------------------------------------------------- helpers
Max(a, b) == IF a >= b THEN a ELSE b

NoText == "-"
Fragments == {"hello", "world", "hi"}
NoArgs == "undefined"

\* A function call of a toolCall message.
Call(id, name, args) == [id |-> id, name |-> name, args |-> args]

\* An inbound LiveServerMessage, by the fields onmessage reads.
Msg(inTr, outTr, audio, interrupted, calls, turnComplete) ==
  [inTr |-> inTr, outTr |-> outTr, audio |-> audio, interrupted |-> interrupted,
   calls |-> calls, turnComplete |-> turnComplete]

\* An entry of thens / uplink.
Entry(op, n, id, name) == [op |-> op, n |-> n, id |-> id, name |-> name]
CloseIfInactive == Entry("closeIfInactive", 0, "-", "-")
SessionClose == Entry("close", 0, "-", "-")
AudioFrame(k) == Entry("audio", k, "-", "-")
ToolResponse(n, fc) == Entry("tool", n, fc.id, fc.name)

\* setState of the overlay: React drops updates of an unmounted component.
SetState(new, old) == IF isActive THEN new ELSE old

\* ------------------------------------------------------- host sessions
\* Strings the host cuts or compares are sequences of characters.
NewChat == <<"N", "e", "w", " ", "C", "h", "a", "t">>
TitleLen == 30

\* String.prototype.substring(a, b) for 0 <= a <= b
substring(str, a, b) ==
  SubSeq(str, a + 1, IF b <= Len(str) THEN b ELSE Len(str))

\* String.prototype.startsWith
startsWith(str, prefix) ==
  Len(str) >= Len(prefix) /\ SubSeq(str, 1, Len(prefix)) = prefix

\* App.tsx:59, :70, :176
NewSession(id) == [id |-> id, title |-> NewChat, messages |-> <<>>]

\* A Message, by its role, the text of parts[0] and isError.
Message(role, text, isError) == [role |-> role, text |-> text, isError |-> isError]

\* an addMessageToSession that retitles on every user message
addMessageToSessionRetitle(ss, sessionId, message) ==
  [i \in 1..Len(ss) |->
     IF ss[i].id = sessionId
       THEN [ss[i] EXCEPT
               !.title = IF message.role = "user"
                           THEN IF substring(message.text, 0, TitleLen) # <<>>
                                  THEN substring(message.text, 0, TitleLen)
                                  ELSE NewChat
                           ELSE @,
               !.messages = Append(@, message)]
       ELSE ss[i]]

\* App.tsx:42-53, the updater given to setSessions applied to ss.
addMessageToSession(ss, sessionId, message) ==
  [i \in 1..Len(ss) |->
     IF ss[i].id = sessionId
       THEN [ss[i] EXCEPT
               !.title = IF (ss[i].messages = <<>> \/ ss[i].title = NewChat)
                            /\ message.role = "user"
                           THEN IF substring(message.text, 0, TitleLen) # <<>>
                                  THEN substring(message.text, 0, TitleLen)
                                  ELSE NewChat
                           ELSE @,
               !.messages = Append(@, message)]
       ELSE ss[i]]

\* App.tsx:124: sessions.find(s => s.id === sessionId)?.messages || []
MessagesOf(ss, sessionId) ==
  IF \E i \in 1..Len(ss) : ss[i].id = sessionId
    THEN ss[CHOOSE i \in 1..Len(ss) :
              ss[i].id = sessionId /\ \A j \in 1..(i - 1) : ss[j].id # sessionId].messages
    ELSE <<>>

\* types.ts:84-91: the contents generateGeminiResponse builds from its
\* arguments; prompt is not used.
generateGeminiResponse(prompt, history) ==
  [i \in 1..Len(history) |-> [role |-> history[i].role, text |-> history[i].text]]

\* ------------------------------------------------- host command handler
\* App.tsx:56-65.  h is the host state the handler writes.  Every Date.now()
\* of one task reads the same millisecond t.
handleVoiceCommand(h, command, args, t) ==
  IF command = "createNewChat"
    THEN [h EXCEPT !.sessions = <<NewSession(t)>> \o h.sessions,
                   !.currentSessionId = t]
    ELSE IF command = "toggleSearch"
      THEN [h EXCEPT !.useSearch = (args = "on")]
      ELSE h

\* App.tsx:63: `args.enabled` of a call that carries no args is a TypeError.
Throws(fc) == fc.name = "toggleSearch" /\ fc.args = NoArgs

\* LiveVoiceOverlay.tsx:93-101: the index of the call whose onCommand throws
\* and ends the loop, Len(calls) + 1 when the loop runs to its end.
FirstThrow(calls) ==
  IF \E i \in 1..Len(calls) : Throws(calls[i])
    THEN CHOOSE i \in 1..Len(calls) :
           Throws(calls[i]) /\ \A j \in 1..(i - 1) : ~Throws(calls[j])
    ELSE Len(calls) + 1

RECURSIVE RunCommands(_, _, _)
RunCommands(h, calls, t) ==
  IF calls = <<>> THEN h
  ELSE RunCommands(handleVoiceCommand(h, Head(calls).name, Head(calls).args, t),
                   Tail(calls), t)

\* ------------------------------------------------------ sessionPromise
\* The session used directly, without waiting for sessionPromise.
SessionThenEager(state, q, up, entries) == <<q, up \o entries>>

\* sessionPromise.then(cb): cb runs at once (a microtask of this task) when
\* the promise has resolved, waits in order while it is pending, and never
\* runs when it has rejected.  Yields the new <<thens, uplink>>.
SessionThen(state, q, up, entries) ==
  IF state = "resolved" THEN <<q, up \o entries>>
  ELSE IF state = "pending" THEN <<q \o entries, up>>
  ELSE <<q, up>>

\* LiveVoiceOverlay.tsx:140-142, :49-51, :96-100: what the continuations
\* waiting on sessionPromise call on the session once it resolves.
RunThens(q, active) ==
  LET run == SelectSeq(q, LAMBDA e : e.op # "closeIfInactive" \/ ~active)
  IN [i \in 1..Len(run) |->
        IF run[i].op = "closeIfInactive" THEN SessionClose ELSE run[i]]

\* -------------------------------------------------------------- playback
\* LiveVoiceOverlay.tsx:71
ClampToNow(nst, t) == Max(nst, t)

\* Advance without the buffer's duration.
AdvanceNot(nst, dur) == nst

\* LiveVoiceOverlay.tsx:77
Advance(nst, dur) == nst + dur

\* services/audioUtils decodeAudioData, awaited at LiveVoiceOverlay.tsx:72:
\* the decoded AudioBuffer, by its duration.  The decode is asynchronous and
\* its latency varies: the awaiting handler resumes in a later task.
decodeAudioData(data) == [duration |-> data]

\* A malformed chunk (truncated, wrong encoding): its decode fails and the
\* awaited promise rejects.  Chunks are written by their duration; a negative
\* number stands for a malformed one.
Malformed(data) == data < 0

\* LiveVoiceOverlay.tsx:73-79: the source node handed to the output device.
\* start is the time given to source.start(); a start in the past plays at
\* once, so the node ends at endAt.
NewNode(nst, dur, t, epoch) ==
  [start |-> nst, dur |-> dur, at |-> t, endAt |-> Max(nst, t) + dur,
   stopped |-> FALSE, ended |-> FALSE, epoch |-> epoch]

\* LiveVoiceOverlay.tsx:86: stop() of every source in sourcesRef
StopAll(nds, srcs) ==
  [i \in 1..Len(nds) |-> IF i \in srcs THEN [nds[i] EXCEPT !.stopped = TRUE] ELSE nds[i]]

\* a completion callback that empties the set instead of deleting its source
SourcesDeleteAll(srcs, i) == {}

\* LiveVoiceOverlay.tsx:80: sourcesRef.current.delete(source); deleting a
\* source that is not in the Set leaves the Set as it is.
SourcesDelete(srcs, i) == srcs \ {i}

\* LiveVoiceOverlay.tsx:61, :64   prev + ' ' + text
AppendFragment(prev, text) == prev \o <<" ", text>>

\* ------------------------------------------------------------ onmessage
\* LiveVoiceOverlay.tsx:85-107: the part of onmessage after the audio
\* branch, run on the values (nds, srcs, nst, stat, ut, at) the earlier
\* part of the handler left.  n is the number of the message.
Rest(n, m, nds, srcs, nst, stat, ut, at) ==
  LET k == FirstThrow(m.calls)
      threw == k <= Len(m.calls)
      invoked == SubSeq(m.calls, 1, IF threw THEN k ELSE Len(m.calls))
      acked == SubSeq(m.calls, 1, k - 1)
      h == RunCommands([sessions |-> sessions, currentSessionId |-> currentSessionId,
                        useSearch |-> useSearch], acked, n)
      sent == SessionThen(promise, thens, uplink,
                          [i \in 1..Len(acked) |-> ToolResponse(n, acked[i])])
      reset == m.turnComplete /\ ~threw
  IN /\ nodes' = IF m.interrupted THEN StopAll(nds, srcs) ELSE nds
     /\ sources' = IF m.interrupted THEN {} ELSE srcs
     /\ nextStartTime' = IF m.interrupted THEN 0 ELSE nst
     /\ status' = IF m.interrupted THEN SetState("listening", stat) ELSE stat
     /\ interrupts' = IF m.interrupted THEN interrupts + 1 ELSE interrupts
     /\ overtaken' = (IF m.interrupted
                        THEN overtaken \cup {c.n : c \in {d \in decoding : d.n < n}}
                        ELSE overtaken) \ {n}
     /\ commands' = commands \o [i \in 1..Len(invoked) |-> [n |-> n, id |-> invoked[i].id]]
     /\ rejections' = IF threw THEN rejections + 1 ELSE rejections
     /\ sessions' = h.sessions
     /\ currentSessionId' = h.currentSessionId
     /\ useSearch' = h.useSearch
     /\ UNCHANGED sendVars
     /\ thens' = sent[1]
     /\ uplink' = sent[2]
     /\ userTranscript' = IF reset THEN SetState(<<>>, ut) ELSE ut
     /\ aiTranscript' = IF reset THEN SetState(<<>>, at) ELSE at

\* LiveVoiceOverlay.tsx:57-72 (to the await), or :57-107 when the message
\* carries no audio and the handler never suspends.
OnMessage(m) ==
  /\ isActive
  /\ opened /\ promise \in {"pending", "resolved"} /\ ~peerClosed
  /\ msgCount' = msgCount + 1
  /\ requests' = requests \o [i \in 1..Len(m.calls) |->
                                [n |-> msgCount + 1, id |-> m.calls[i].id,
                                 name |-> m.calls[i].name]]
  /\ lastFragment' = IF m.inTr # NoText \/ m.outTr # NoText
                       THEN msgCount + 1 ELSE lastFragment
  /\ LET ut == IF m.inTr # NoText
                 THEN SetState(AppendFragment(userTranscript, m.inTr), userTranscript)
                 ELSE userTranscript
         at == IF m.outTr # NoText
                 THEN SetState(AppendFragment(aiTranscript, m.outTr), aiTranscript)
                 ELSE aiTranscript
     IN IF m.audio # 0
          THEN /\ status' = SetState("speaking", status)
               /\ nextStartTime' = ClampToNow(nextStartTime, now)
               /\ decoding' = decoding \cup
                    {[n |-> msgCount + 1, m |-> m,
                      prev |-> IF Malformed(m.audio)
                                 THEN [status |-> status, nst |-> nextStartTime]
                                 ELSE [status |-> NoText, nst |-> 0]]}
               /\ userTranscript' = ut
               /\ aiTranscript' = at
               /\ UNCHANGED <<nodes, sources, interrupts, overtaken, commands, rejections,
                              thens, uplink, hostVars>>
          ELSE /\ Rest(msgCount + 1, m, nodes, sources, nextStartTime, status, ut, at)
               /\ UNCHANGED decoding
  /\ UNCHANGED <<lifeVars, isMuted, effectIsMuted, captured, now>>

\* LiveVoiceOverlay.tsx:72-107: decodeAudioData has resolved and the
\* suspended handler c runs to its end.
DecodeDone(c) ==
  /\ c \in decoding
  /\ ~Malformed(c.m.audio)
  /\ decoding' = decoding \ {c}
  /\ LET buffer == decodeAudioData(c.m.audio)
         nds == Append(nodes, NewNode(nextStartTime, buffer.duration, now, interrupts))
     IN Rest(c.n, c.m, nds, sources \cup {Len(nds)},
             Advance(nextStartTime, buffer.duration), status, userTranscript,
             aiTranscript)
  /\ UNCHANGED <<lifeVars, isMuted, effectIsMuted, captured, now, msgCount,
                 requests, lastFragment>>

\* LiveVoiceOverlay.tsx:72: decodeAudioData rejects.  The await is in no
\* try block, so the async handler c ends there with a rejected promise and
\* :73-107 do not run.
DecodeFail(c) ==
  /\ c \in decoding
  /\ Malformed(c.m.audio)
  /\ decoding' = decoding \ {c}
  /\ rejections' = rejections + 1
  /\ overtaken' = overtaken \ {c.n}
  /\ UNCHANGED <<lifeVars, status, textVars, linkVars, hostVars, isMuted,
                 effectIsMuted, captured, now, nextStartTime, nodes, sources,
                 interrupts, msgCount, commands, requests, lastFragment>>

\* LiveVoiceOverlay.tsx:79-82   source.onended
OnEnded(i) ==
  /\ i \in DOMAIN nodes
  /\ ~nodes[i].ended
  /\ nodes[i].stopped \/ now >= nodes[i].endAt
  /\ nodes' = [nodes EXCEPT ![i].ended = TRUE]
  /\ sources' = SourcesDelete(sources, i)
  /\ status' = IF sources' = {} THEN SetState("listening", status) ELSE status
  /\ UNCHANGED <<lifeVars, textVars, linkVars, msgVars, hostVars, isMuted,
                 effectIsMuted, captured, now, nextStartTime, decoding, interrupts>>

\* The output AudioContext's clock; it stops when the context is closed.
Tick ==
  /\ ~outCtxClosed
  /\ now < MaxClock
  /\ now' = now + 1
  /\ UNCHANGED <<lifeVars, textVars, linkVars, msgVars, hostVars, isMuted,
                 effectIsMuted, captured, status, nextStartTime, nodes, sources,
                 decoding, interrupts>>

\* ------------------------------------------------------------ host: App
\* App.tsx:174-179   Sidebar onNew
OnNew ==
  /\ clock < MaxIds
  /\ clock' = clock + 1
  /\ sessions' = <<NewSession(clock + 1)>> \o sessions
  /\ currentSessionId' = clock + 1
  /\ UNCHANGED <<lifeVars, status, textVars, linkVars, msgVars, playVars, isMuted,
                 effectIsMuted, captured, useSearch, isLoading, sending, contents>>

\* App.tsx:173   Sidebar onSelect={setCurrentSessionId}
OnSelect(id) ==
  /\ \E i \in 1..Len(sessions) : sessions[i].id = id
  /\ currentSessionId' = id
  /\ UNCHANGED <<lifeVars, status, textVars, linkVars, msgVars, playVars, isMuted,
                 effectIsMuted, captured, sessions, useSearch, sendVars>>

\* App.tsx:180   Sidebar onDelete
OnDelete(id) ==
  /\ \E i \in 1..Len(sessions) : sessions[i].id = id
  /\ sessions' = SelectSeq(sessions, LAMBDA sn : sn.id # id)
  /\ UNCHANGED <<lifeVars, status, textVars, linkVars, msgVars, playVars, isMuted,
                 effectIsMuted, captured, currentSessionId, useSearch, sendVars>>

\* App.tsx:56-65 called with a command that does not throw.
VoiceCommand(command, args) ==
  /\ clock < MaxIds
  /\ ~Throws(Call("-", command, args))
  /\ clock' = clock + 1
  /\ LET h == handleVoiceCommand([sessions |-> sessions,
                                  currentSessionId |-> currentSessionId,
                                  useSearch |-> useSearch], command, args, clock + 1)
     IN /\ sessions' = h.sessions
        /\ currentSessionId' = h.currentSessionId
        /\ useSearch' = h.useSearch
  /\ UNCHANGED <<lifeVars, status, textVars, linkVars, msgVars, playVars, isMuted,
                 effectIsMuted, captured, isLoading, sending, contents>>

ImageCmd == <<"/", "i", "m", "a", "g", "e">>
VideoCmd == <<"/", "v", "i", "d", "e", "o">>

\* App.tsx:67-129, to the first await: InputArea calls onSend only while it
\* is not disabled (MessageItem.tsx:209, App.tsx:193).  The history given to
\* generateGeminiResponse is read from the sessions of the render the
\* handler was created in, that is from before the updates of this call.
SendStart(text) ==
  /\ ~isLoading
  /\ clock < MaxIds
  /\ clock' = clock + 1
  /\ LET id == clock + 1
         sessionId == IF currentSessionId # 0 THEN currentSessionId ELSE id
         created == IF currentSessionId # 0 THEN sessions
                    ELSE <<NewSession(id)>> \o sessions
         userMsg == Message("user", text, FALSE)
         plain == ~startsWith(text, ImageCmd) /\ ~startsWith(text, VideoCmd)
     IN /\ sessions' = addMessageToSession(created, sessionId, userMsg)
        /\ currentSessionId' = sessionId
        /\ sending' = <<[sessionId |-> sessionId, text |-> text]>>
        /\ contents' = IF plain
                         THEN generateGeminiResponse(text, MessagesOf(sessions, sessionId))
                         ELSE contents
  /\ isLoading' = TRUE
  /\ UNCHANGED <<lifeVars, status, textVars, linkVars, msgVars, playVars, isMuted,
                 effectIsMuted, captured, useSearch>>

ResponseText == <<"o", "k">>
ErrorText == <<"E", "r", "r", "o", "r">>

\* App.tsx:96-160: the awaited generation settles; the model message or the
\* error message is added and the finally clears isLoading.
SendDone(ok) ==
  /\ sending # <<>>
  /\ sessions' = addMessageToSession(sessions, sending[1].sessionId,
                   IF ok THEN Message("model", ResponseText, FALSE)
                         ELSE Message("model", ErrorText, TRUE))
  /\ isLoading' = FALSE
  /\ sending' = <<>>
  /\ UNCHANGED <<lifeVars, status, textVars, linkVars, msgVars, playVars, isMuted,
                 effectIsMuted, captured, currentSessionId, useSearch, contents,
                 clock>>

\* ---------------------------------------------------------- startSession
\* LiveVoiceOverlay.tsx:32-142: getUserMedia resolves; ai.live.connect is
\* called and the close-if-unmounted continuation is put on sessionPromise.
GetUserMediaOk ==
  /\ stream = "pending"
  /\ stream' = "ok"
  /\ promise' = "pending"
  /\ thens' = <<CloseIfInactive>>
  /\ UNCHANGED <<unmountedAt, isVoiceMode, isActive, opened, processor, audioCtxClosed,
                 outCtxClosed, peerClosed, status, textVars, uplink, msgVars,
                 hostVars, playVars, isMuted, effectIsMuted, captured>>

\* a catch that goes on to connect after the microphone was refused
GetUserMediaFailConnects ==
  /\ stream = "pending"
  /\ stream' = "failed"
  /\ status' = SetState("error", status)
  /\ promise' = "pending"
  /\ thens' = <<CloseIfInactive>>
  /\ UNCHANGED <<unmountedAt, isVoiceMode, isActive, opened, processor,
                 audioCtxClosed, outCtxClosed, peerClosed, textVars, uplink,
                 msgVars, hostVars, playVars, isMuted, effectIsMuted, captured>>

\* LiveVoiceOverlay.tsx:32, :143-146: getUserMedia rejects, the catch runs.
GetUserMediaFail ==
  /\ stream = "pending"
  /\ stream' = "failed"
  /\ status' = SetState("error", status)
  /\ UNCHANGED <<unmountedAt, isVoiceMode, isActive, promise, opened, processor,
                 audioCtxClosed, outCtxClosed, peerClosed, textVars, linkVars,
                 msgVars, hostVars, playVars, isMuted, effectIsMuted, captured>>

\* LiveVoiceOverlay.tsx:37-56
OnOpen ==
  /\ promise = "pending" /\ ~opened
  /\ opened' = TRUE
  /\ status' = IF isActive THEN "listening" ELSE status
  /\ processor' = isActive
  /\ UNCHANGED <<unmountedAt, isVoiceMode, isActive, stream, promise, audioCtxClosed,
                 outCtxClosed, peerClosed, textVars, linkVars, msgVars,
                 hostVars, playVars, isMuted, effectIsMuted, captured>>

\* sessionPromise resolves: its waiting continuations run in the order they
\* were registered (:140-142 first, then the queued :49-51 and :96-100).
Resolve ==
  /\ promise = "pending" /\ opened
  /\ promise' = "resolved"
  /\ uplink' = uplink \o RunThens(thens, isActive)
  /\ thens' = <<>>
  /\ UNCHANGED <<unmountedAt, isVoiceMode, isActive, stream, opened, processor,
                 audioCtxClosed, outCtxClosed, peerClosed, status, textVars,
                 msgVars, hostVars, playVars, isMuted, effectIsMuted, captured>>

\* sessionPromise rejects: no continuation registered with then() runs, and
\* nothing awaits the promise inside the try (:34, :140, :143).
Reject ==
  /\ promise = "pending" /\ ~opened
  /\ promise' = "rejected"
  /\ thens' = <<>>
  /\ UNCHANGED <<unmountedAt, isVoiceMode, isActive, stream, opened, processor,
                 audioCtxClosed, outCtxClosed, peerClosed, status, textVars,
                 uplink, msgVars, hostVars, playVars, isMuted, effectIsMuted,
                 captured>>

\* LiveVoiceOverlay.tsx:109
OnError ==
  /\ promise \in {"pending", "resolved"} /\ ~peerClosed
  /\ status' = SetState("error", status)
  /\ UNCHANGED <<lifeVars, textVars, linkVars, msgVars, hostVars, playVars,
                 isMuted, effectIsMuted, captured>>

\* LiveVoiceOverlay.tsx:110 with App.tsx:168: the transport closes and the
\* host's onClose clears isVoiceMode.
OnTransportClose ==
  /\ promise \in {"pending", "resolved"} /\ ~peerClosed
  /\ peerClosed' = TRUE
  /\ isVoiceMode' = FALSE
  /\ UNCHANGED <<unmountedAt, isActive, stream, promise, opened, processor, audioCtxClosed,
                 outCtxClosed, status, textVars, linkVars, msgVars, hostVars,
                 playVars, isMuted, effectIsMuted, captured>>

\* LiveVoiceOverlay.tsx:169, :216 with App.tsx:168: the close buttons.
EndSession ==
  /\ isVoiceMode
  /\ isVoiceMode' = FALSE
  /\ UNCHANGED <<unmountedAt, isActive, stream, promise, opened, processor, audioCtxClosed,
                 outCtxClosed, peerClosed, status, textVars, linkVars, msgVars,
                 hostVars, playVars, isMuted, effectIsMuted, captured>>

\* LiveVoiceOverlay.tsx:151-156: the effect's cleanup, run when the host
\* stops rendering the overlay.
Unmount ==
  /\ ~isVoiceMode /\ isActive
  /\ isActive' = FALSE
  /\ audioCtxClosed' = TRUE
  /\ outCtxClosed' = TRUE
  /\ unmountedAt' = promise
  /\ UNCHANGED <<isVoiceMode, stream, promise, opened, processor, peerClosed,
                 status, textVars, linkVars, msgVars, hostVars, playVars,
                 isMuted, effectIsMuted, captured>>

\* ------------------------------------------------------ capture and mute
\* LiveVoiceOverlay.tsx:205
ToggleMute ==
  /\ isActive
  /\ isMuted' = ~isMuted
  /\ UNCHANGED <<lifeVars, status, textVars, linkVars, msgVars, hostVars,
                 playVars, effectIsMuted, captured>>

\* LiveVoiceOverlay.tsx:44-52.  The callback is created once, inside the
\* effect of the first render (:22, deps [] at :157), so the isMuted it
\* tests is the value that render had: effectIsMuted.
OnAudioProcess ==
  /\ processor /\ ~audioCtxClosed
  /\ captured' = Append(captured, isMuted)
  /\ LET sent == IF effectIsMuted THEN <<thens, uplink>>
                 ELSE SessionThen(promise, thens, uplink,
                                  <<AudioFrame(Len(captured) + 1)>>)
     IN thens' = sent[1] /\ uplink' = sent[2]
  /\ UNCHANGED <<lifeVars, status, textVars, msgVars, hostVars, playVars,
                 isMuted, effectIsMuted>>

\* ------------------------------------------------------------------ Init
Init ==
  /\ isVoiceMode = TRUE
  /\ isActive = TRUE
  /\ stream = "pending"
  /\ promise = "none"
  /\ opened = FALSE
  /\ processor = FALSE
  /\ audioCtxClosed = FALSE
  /\ outCtxClosed = FALSE
  /\ peerClosed = FALSE
  /\ status = "connecting"
  /\ userTranscript = <<>>
  /\ aiTranscript = <<>>
  /\ isMuted = FALSE
  /\ effectIsMuted = FALSE
  /\ thens = <<>>
  /\ uplink = <<>>
  /\ captured = <<>>
  /\ now = 0
  /\ nextStartTime = 0
  /\ nodes = <<>>
  /\ sources = {}
  /\ decoding = {}
  /\ msgCount = 0
  /\ interrupts = 0
  /\ commands = <<>>
  /\ rejections = 0
  /\ requests = <<>>
  /\ lastFragment = 0
  /\ overtaken = {}
  /\ unmountedAt = "-"
  /\ sessions = <<>>
  /\ currentSessionId = 0
  /\ isLoading = FALSE
  /\ sending = <<>>
  /\ contents = <<>>
  /\ clock = 0
  /\ useSearch = FALSE

\* ------------------------------------------------------- inbound messages
CallIds == <<"a", "b", "c", "d", "e">>
CallKinds == {<<"createNewChat", NoArgs>>, <<"toggleSearch", "on">>,
              <<"toggleSearch", NoArgs>>, <<"unknownCommand", NoArgs>>}
BatchesUpTo(n) ==
  UNION {{[i \in 1..k |-> Call(CallIds[i], f[i][1], f[i][2])] : f \in [1..k -> CallKinds]}
         : k \in 1..n}

\* toolCall messages: every batch of up to MaxBatch calls
ToolMsgs == {Msg(NoText, NoText, 0, FALSE, b, FALSE) : b \in BatchesUpTo(MaxBatch)}

\* toolCall messages of one call
CallMsgs == {Msg(NoText, NoText, 0, FALSE, b, FALSE) : b \in BatchesUpTo(1)}

\* audio chunks and 'interrupted' events
PlayMsgs == {Msg(NoText, NoText, d, i, <<>>, FALSE) : d \in 0..MaxDur, i \in BOOLEAN}
            \ {Msg(NoText, NoText, 0, FALSE, <<>>, FALSE)}

\* ------------------------------------------------------------------ Next
Lifecycle ==
  \/ GetUserMediaOk
  \/ GetUserMediaFail
  \/ OnOpen
  \/ Resolve
  \/ Reject
  \/ EndSession
  \/ Unmount
  \/ OnError
  \/ OnTransportClose

\* The session with its uplink: capture, mute and single tool calls.
Next ==
  \/ Lifecycle
  \/ ToggleMute
  \/ (Len(captured) < MaxFrames /\ OnAudioProcess)
  \/ \E m \in CallMsgs : msgCount < MaxToolMsgs /\ OnMessage(m)

Spec == Init /\ [][Next]_vars

\* The session with its tool-call dispatch: batches of calls.
NextTool ==
  \/ Lifecycle
  \/ \E m \in ToolMsgs : msgCount < MaxToolMsgs /\ OnMessage(m)

SpecTool == Init /\ [][NextTool]_vars

\* The session with its playback: audio chunks, interruptions, the clock.
NextPlay ==
  \/ GetUserMediaOk
  \/ OnOpen
  \/ Resolve
  \/ EndSession
  \/ Unmount
  \/ Tick
  \/ \E m \in PlayMsgs : msgCount < MaxMsgs /\ OnMessage(m)
  \/ \E c \in decoding : DecodeDone(c)
  \/ \E i \in DOMAIN nodes : OnEnded(i)

SpecPlay == Init /\ [][NextPlay]_vars

\* transcript fragments and turn-complete events
TextMsgs == {Msg(i, o, 0, FALSE, <<>>, tc) :
               i \in {NoText, "hi"}, o \in Fragments \cup {NoText}, tc \in BOOLEAN}
            \ {Msg(NoText, NoText, 0, FALSE, <<>>, FALSE)}

\* The session with its transcripts.
NextText ==
  \/ GetUserMediaOk
  \/ OnOpen
  \/ Resolve
  \/ EndSession
  \/ Unmount
  \/ \E m \in TextMsgs : msgCount < MaxTexts /\ OnMessage(m)

SpecText == Init /\ [][NextText]_vars

\* Transcript fragments, audio and turn completion in one message stream:
\* the handler of a message with audio suspends at its decode while later
\* messages are handled.
TurnMsgs ==
  {Msg(NoText, o, d, FALSE, <<>>, tc) :
     o \in {NoText, "hi"}, d \in 0..MaxDur, tc \in BOOLEAN}
  \ {Msg(NoText, NoText, 0, FALSE, <<>>, FALSE)}

NextTurn ==
  \/ GetUserMediaOk
  \/ OnOpen
  \/ Resolve
  \/ EndSession
  \/ Unmount
  \/ \E m \in TurnMsgs : msgCount < MaxMsgs /\ OnMessage(m)
  \/ \E c \in decoding : DecodeDone(c)

SpecTurn == Init /\ [][NextTurn]_vars

\* Playback with transport errors.
NextStatus ==
  \/ GetUserMediaOk
  \/ OnOpen
  \/ Resolve
  \/ EndSession
  \/ Unmount
  \/ OnError
  \/ Tick
  \/ \E m \in PlayMsgs : msgCount < MaxMsgs /\ OnMessage(m)
  \/ \E c \in decoding : DecodeDone(c)
  \/ \E i \in DOMAIN nodes : OnEnded(i)

SpecStatus == Init /\ [][NextStatus]_vars

\* Audio messages some of whose chunks are malformed.
ChunkMsgs ==
  {Msg(NoText, o, d, i, <<>>, tc) :
     o \in {NoText, "hi"}, d \in {-1, 1}, i \in BOOLEAN, tc \in BOOLEAN}
  \cup {Msg(NoText, NoText, 0, TRUE, <<>>, FALSE)}

NextDecode ==
  \/ GetUserMediaOk
  \/ OnOpen
  \/ Resolve
  \/ EndSession
  \/ Unmount
  \/ Tick
  \/ \E m \in ChunkMsgs : msgCount < MaxMsgs /\ OnMessage(m)
  \/ \E c \in decoding : DecodeDone(c)
  \/ \E c \in decoding : DecodeFail(c)
  \/ \E i \in DOMAIN nodes : OnEnded(i)

SpecDecode == Init /\ [][NextDecode]_vars

\* The host application: sidebar, voice commands and sent messages.
LongText == [i \in 1..(TitleLen + 1) |-> "x"]
Texts == {<<>>, <<"h", "i">>, LongText, ImageCmd}
SessionIds == {sessions[i].id : i \in 1..Len(sessions)}

NextHost ==
  \/ OnNew
  \/ \E id \in SessionIds : OnSelect(id)
  \/ \E id \in SessionIds : OnDelete(id)
  \/ VoiceCommand("createNewChat", NoArgs)
  \/ VoiceCommand("toggleSearch", "on")
  \/ \E text \in Texts : SendStart(text)
  \/ \E ok \in BOOLEAN : SendDone(ok)

SpecHost == Init /\ [][NextHost]_vars

\* ================================================================ claims
UplinkOps(op) == {j \in DOMAIN uplink : uplink[j].op = op}
SessionClosed == UplinkOps("close") # {} \/ peerClosed

\* C1: every function call of an accepted toolCall message gets exactly one
\* tool response carrying its id, also when onCommand throws for a call of
\* the batch.  (Stated once the handshake has resolved, when nothing waits.)
EveryCallAcknowledgedOnce ==
  promise = "resolved" =>
    \A i \in DOMAIN requests :
      Cardinality({j \in UplinkOps("tool") :
                     uplink[j].n = requests[i].n /\ uplink[j].id = requests[i].id}) = 1

\* C2: when the overlay is unmounted before sessionPromise resolves, the
\* session is closed on resolution and no audio frame is ever sent on it.
DeferredCloseSendsNothing ==
  (unmountedAt \in {"none", "pending"} /\ promise = "resolved") =>
    (UplinkOps("close") # {} /\ UplinkOps("audio") = {})

\* C3: after the overlay is unmounted, at any point, the transport session
\* ends up closed and the audio contexts released.  (Stated for the states
\* in which the cleanup has run and no continuation of sessionPromise is
\* left to run.)
UnmountClosesSession ==
  (~isActive /\ promise = "resolved") =>
    (SessionClosed /\ audioCtxClosed /\ outCtxClosed)

\* C4: no frame captured while mute is enabled is sent to the transport.
MutedFramesNotSent ==
  \A j \in UplinkOps("audio") : ~captured[uplink[j].n]

\* C5: of two buffers scheduled one after the other with no interrupt in
\* between, the later starts no earlier than the earlier one's start plus
\* its duration.
SameEpoch(i) == nodes[i].epoch = nodes[i + 1].epoch
MonotonicPlayback ==
  \A i \in 1..(Len(nodes) - 1) :
    SameEpoch(i) => nodes[i + 1].start >= nodes[i].start + nodes[i].dur

\* C5 witness: two buffers were scheduled with no interrupt in between.
TwoBuffersScheduled ==
  \E i \in 1..(Len(nodes) - 1) : SameEpoch(i) /\ nodes[i + 1].start > 0

\* C6: a buffer scheduled while the buffer scheduled before it is still
\* playing (no interrupt in between) starts exactly at that buffer's end.
GaplessWhenContinuous ==
  \A i \in 1..(Len(nodes) - 1) :
    (SameEpoch(i) /\ nodes[i + 1].at < nodes[i].endAt) =>
      nodes[i + 1].start = nodes[i].start + nodes[i].dur

\* C7: processing an 'interrupted' event leaves ActiveSources empty, and the
\* first buffer scheduled after it starts at the device's current time.
FirstAfterInterrupt ==
  interrupts > 0 /\ (nodes = <<>> \/ nodes[Len(nodes)].epoch < interrupts)
IsJoined(t) ==
  /\ t # <<>> => Len(t) % 2 = 1
  /\ \A i \in DOMAIN t : IF i % 2 = 1 THEN t[i] \in Fragments ELSE t[i] = " "
TranscriptsJoinedBySpace == IsJoined(userTranscript) /\ IsJoined(aiTranscript)

\* C9: once the overlay is unmounted no inbound event schedules a buffer,
\* adds to ActiveSources, moves NextStartClock or changes the status.
NoEventAfterClosed ==
  [][~isActive => /\ Len(nodes') = Len(nodes)
                  /\ sources' \subseteq sources
                  /\ nextStartTime' = nextStartTime
                  /\ status' = status]_vars

\* C10: nothing (audio frame, tool response) is sent to the transport before
\* sessionPromise has resolved; frames captured and calls handled while it
\* is pending leave the uplink untouched.
UplinkGatedOnHandshake == promise # "resolved" => uplink = <<>>

\* C10 witness: a frame was captured and a tool call handled while the
\* handshake was pending, and both wait on the promise.
CapturedWhilePending ==
  /\ promise = "pending"
  /\ captured # <<>>
  /\ commands # <<>>
  /\ \E j \in DOMAIN thens : thens[j].op = "audio"
  /\ \E j \in DOMAIN thens : thens[j].op = "tool"

\* C11: while the session is established the status is 'speaking' whenever
\* ActiveSources is non-empty and 'listening' whenever it is empty.
StatusReflectsActiveSources ==
  (isActive /\ status \in {"listening", "speaking"}) =>
    /\ sources # {} => status = "speaking"
    /\ sources = {} => status = "listening"

\* C12: after the transport has reported an error the session is in Error,
\* the transport is closed and the capture and playback devices released.
\* The microphone is held from getUserMedia on (stream = "ok"): nothing in
\* the overlay stops the stream's tracks.
MicReleased == stream # "ok"
TransportErrorTearsDown ==
  (status = "error" /\ stream = "ok") =>
    (SessionClosed /\ audioCtxClosed /\ outCtxClosed /\ MicReleased)

\* C13: the host's onClose has been invoked (the host no longer renders the
\* overlay) whenever the session has ended: microphone failure, handshake
\* failure, transport error, transport close.
SessionEnded ==
  stream = "failed" \/ promise = "rejected" \/ status = "error" \/ peerClosed
OnCloseWheneverSessionEnds == SessionEnded => ~isVoiceMode

\* C14: buffers are scheduled in the order their audio messages arrived: a
\* handler that resumes from its decode is the earliest one still suspended.
PlaybackInArrivalOrder ==
  [][\A d \in decoding \ decoding' : \A c \in decoding' \cap decoding : d.n < c.n]_vars

\* C15: a turn-complete clears only what was delivered before it: the
\* handler of a turn-complete message leaves the transcripts alone when a
\* later message has delivered a fragment.
TurnCompleteClearsOnlyEarlierText ==
  [][\A c \in decoding \ decoding' :
       (c.m.turnComplete /\ lastFragment > c.n) =>
         UNCHANGED <<userTranscript, aiTranscript>>]_vars

\* C16: every function call of every handled message has been answered, in
\* the order of the calls, each response with the call's own id and name and
\* the result "ok".
Responses == SelectSeq(uplink, LAMBDA e : e.op = "tool")
ResponsesMatchCalls ==
  promise = "resolved" =>
    /\ Len(Responses) = Len(requests)
    /\ \A i \in DOMAIN requests :
         /\ Responses[i].n = requests[i].n
         /\ Responses[i].id = requests[i].id
         /\ Responses[i].name = requests[i].name

\* C17: the status leaves 'connecting' only for 'listening' on onopen or for
\* 'error', and once it is 'error' no inbound message, handled or resumed,
\* moves it to another value.
StatusFollowsStateMachine ==
  [][/\ (status = "connecting" /\ status' # status) =>
          (status' = "error" \/ (status' = "listening" /\ ~opened /\ opened'))
     /\ (status = "error" /\ (msgCount' # msgCount \/ decoding' # decoding)) =>
          status' = "error"]_vars

\* C18: right after an 'interrupted' message has been handled nextStartTime
\* equals the output context's current time.
InterruptResetsClockToNow ==
  [][interrupts' > interrupts => nextStartTime' = now']_vars

\* C19: a buffer handed to the device starts at max(nextStartTime, now) taken
\* at that moment, so never before now, and nextStartTime then is its start
\* plus its duration (unless the same message also interrupts).
StartClampedAtScheduling ==
  [][Len(nodes') > Len(nodes) =>
       LET nd == nodes'[Len(nodes')]
       IN /\ nd.start = Max(nextStartTime, now)
          /\ nd.start >= now
          /\ interrupts' = interrupts => nextStartTime' = nd.start + nd.dur]_vars

\* C20: a buffer enters ActiveSources only when it is created and leaves it
\* once, by its own completion callback or by an interrupt flush; a
\* completion callback removes its own buffer and no other, and nothing when
\* its buffer was already flushed; no flushed or completed buffer stays in.
SourcesMembership ==
  [][/\ sources' \ sources \subseteq (DOMAIN nodes' \ DOMAIN nodes)
     /\ (sources \ sources' # {}) =>
          \/ interrupts' > interrupts /\ sources' = {}
          \/ \E i \in sources : /\ ~nodes[i].ended /\ nodes'[i].ended
                                /\ sources' = sources \ {i}
     /\ \A i \in DOMAIN nodes :
          (~nodes[i].ended /\ nodes'[i].ended) => sources' = sources \ {i}
     /\ \A i \in sources' : ~nodes'[i].stopped /\ ~nodes'[i].ended]_vars
\* the completion callback of a flushed buffer has run while a later buffer
\* is active
StaleCompletionAfterFlush ==
  \E i \in DOMAIN nodes : \E j \in sources :
    nodes[i].stopped /\ nodes[i].ended /\ j > i

\* C21: when the decode of a chunk fails no buffer is scheduled; if nothing
\* else happened since the chunk arrived, status and nextStartTime are what
\* they were before it and ActiveSources is untouched; the 'interrupted' and
\* turn-complete of the same message are still processed.
MalformedChunkSkipped ==
  [][\A c \in decoding \ decoding' :
       Malformed(c.m.audio) =>
         /\ Len(nodes') = Len(nodes)
         /\ c.m.interrupted => (interrupts' = interrupts + 1 /\ sources' = {})
         /\ (c.m.turnComplete /\ isActive) =>
              (userTranscript' = <<>> /\ aiTranscript' = <<>>)
         /\ (~c.m.interrupted /\ isActive /\ msgCount = c.n /\ interrupts' = interrupts) =>
              (sources' = sources /\ nextStartTime' = c.prev.nst
               /\ (sources = {} => status' = c.prev.status))]_vars

\* C22: 'speaking' does not outlast its cause: while the session is
\* established and the status is 'speaking', a chunk is still being decoded
\* or a buffer is still in ActiveSources, so that the completion of the last
\* buffer or an 'interrupted' event brings the status back to 'listening'.
SpeakingNotPermanent ==
  (isActive /\ status = "speaking") => (decoding # {} \/ sources # {})

\* C23: when getUserMedia fails the status becomes 'error' (while the overlay
\* is mounted), ai.live.connect is never called, no capture callback is
\* installed, nothing is sent, and the acquisition is not tried again.
MicFailureIsFatal ==
  [][/\ stream' = "failed" =>
          /\ isActive' => status' = "error"
          /\ promise' = "none" /\ ~opened' /\ ~processor'
          /\ thens' = <<>> /\ uplink' = <<>> /\ captured' = <<>>
     /\ stream = "failed" => stream' = "failed"]_vars
MicRefused == stream = "failed" /\ status = "error" /\ isActive

\* C24: when sessionPromise rejects the status becomes 'error' (while the
\* overlay is mounted), no frame and no tool response is sent, and the
\* promise stays rejected (no reconnection).
HandshakeFailureIsError ==
  [][/\ promise' = "rejected" =>
          /\ isActive' => status' = "error"
          /\ UplinkOps("audio")' = {} /\ UplinkOps("tool")' = {}
     /\ promise = "rejected" => promise' = "rejected"]_vars

\* C25: a chunk that arrived before an 'interrupted' event that has been
\* processed is never started or added to ActiveSources, also when its
\* decode was in flight at the interrupt.
InterruptSilencesEarlierChunks ==
  [][\A c \in decoding \ decoding' :
       c.n \in overtaken =>
         (Len(nodes') = Len(nodes) /\ sources' \subseteq sources)]_vars

\* C26: once the overlay is unmounted no captured audio frame and no tool
\* response is sent on the session.
NothingSentAfterTeardown ==
  [][~isActive =>
       /\ UplinkOps("audio")' = UplinkOps("audio")
       /\ UplinkOps("tool")' = UplinkOps("tool")]_vars

\* C27: currentSessionId is null or the id of a session in the list.
CurrentSessionExists == currentSessionId = 0 \/ currentSessionId \in SessionIds

\* C28: a handleSendMessage call appends its user message to the session
\* that is current when it starts (or the one it creates) and sets isLoading;
\* when it completes it appends one model message, response or error, right
\* after that user message in the same session, and isLoading is false.
SendAppendsUserThenModel ==
  [][/\ (sending = <<>> /\ sending' # <<>>) =>
          LET r == sending'[1]
              before == MessagesOf(sessions, r.sessionId)
          IN /\ r.sessionId \in SessionIds'
             /\ MessagesOf(sessions', r.sessionId)
                  = Append(before, Message("user", r.text, FALSE))
             /\ isLoading'
     /\ (sending # <<>> /\ sending' = <<>>) =>
          LET r == sending[1]
              before == MessagesOf(sessions, r.sessionId)
              after == MessagesOf(sessions', r.sessionId)
          IN /\ r.sessionId \in SessionIds'
             /\ Len(after) = Len(before) + 1
             /\ SubSeq(after, 1, Len(before)) = before
             /\ after[Len(after)].role = "model"
             /\ before # <<>> /\ before[Len(before)] = Message("user", r.text, FALSE)
             /\ ~isLoading']_vars

\* C29: for a plain message the contents given to the text model are the
\* session's messages in order with the message just submitted as the last.
ContentsIncludeUserMessage ==
  [][(sending = <<>> /\ sending' # <<>>
      /\ ~startsWith(sending'[1].text, ImageCmd)
      /\ ~startsWith(sending'[1].text, VideoCmd)) =>
       LET r == sending'[1]
           earlier == MessagesOf(sessions, r.sessionId)
       IN contents' = generateGeminiResponse(r.text,
                        Append(earlier, Message("user", r.text, FALSE)))]_vars

\* C30: addMessageToSession keeps the list's length and order, leaves every
\* session with another id as it is, and in a session with that id appends
\* the message and replaces the title, only for a user message to a session
\* that is empty or titled 'New Chat', by the first 30 characters of the
\* text.  emptyTitle is the title this gives for an empty text.
AddInputs ==
  {<<id, Message(role, text, FALSE)>> :
     id \in SessionIds \cup {0}, role \in {"user", "model"}, text \in Texts}
AddFrame(emptyTitle) ==
  \A in \in AddInputs :
    LET id == in[1]
        msg == in[2]
        new == addMessageToSession(sessions, id, msg)
        first30 == substring(msg.text, 0, TitleLen)
    IN /\ Len(new) = Len(sessions)
       /\ \A i \in 1..Len(sessions) :
            IF sessions[i].id = id
              THEN /\ new[i].id = id
                   /\ new[i].messages = Append(sessions[i].messages, msg)
                   /\ new[i].title =
                        IF msg.role = "user"
                           /\ (sessions[i].messages = <<>> \/ sessions[i].title = NewChat)
                          THEN IF first30 = <<>> THEN emptyTitle ELSE first30
                          ELSE sessions[i].title
              ELSE new[i] = sessions[i]
AddMessageFrame == AddFrame(<<>>)
\* C30 as the code has it: an empty text (a message that is only a file)
\* gives the title 'New Chat' instead of the empty string.
AddMessageFrameNewChatForEmpty == AddFrame(NewChat)
\* a file-only first message was added and the session is still 'New Chat',
\* next to a session that was retitled by its first message
FileOnlyFirstMessage ==
  \E i, j \in 1..Len(sessions) :
    /\ sessions[i].messages # <<>> /\ sessions[i].messages[1].text = <<>>
    /\ sessions[i].title = NewChat
    /\ sessions[j].messages # <<>> /\ sessions[j].title = <<"h", "i">>

====
